---- MODULE Spec2Model ----
(***************************************************************************)
(* Model of kquiz: a Telegram vocabulary trainer (src/main.go).            *)
(*                                                                         *)
(* Strings are sequences of one-character strings, so that the key scheme  *)
(* fmt.Sprintf("%d%s", chatID, word), strings.HasPrefix, strings.ReplaceAll*)
(* strings.Index and strings.ToLower are computed as the code computes     *)
(* them.  The two bbolt buckets are functions from keys to values.  One    *)
(* action of the model is one iteration of the update loop of main: the    *)
(* whole processing of one inbound message, replies included.  A store    *)
(* fault is modelled where DatabaseError reaches the quiz state (the View  *)
(* of List under /random), a failing BotAPI.Send where a handler sends     *)
(* more than once (/list); elsewhere bbolt transactions and Send are taken *)
(* to succeed.                                                             *)
(***************************************************************************)
EXTENDS Integers, Sequences, FiniteSets, TLC

VARIABLES
    telegram,        \* bucket "telegram": registration key -> value
    kquiz,           \* bucket "kquiz": chatID ++ word -> translation
    currRandomWord,  \* map[int64]string of main: chatID -> pending answer
    processed,       \* the number of inbound messages processed so far
    update,          \* the inbound message processed by the last iteration
    called,          \* the BotHandler operation that iteration called
    err,             \* the error that operation returned
    sent,            \* the replies that iteration passed to Send, in order
    failed,          \* the indices of sent whose Send returned an error
    logged,          \* the log lines that iteration's switch and its sends wrote
    registrants,     \* history: chats whose last successful Register/Unregister was a Register
    added,           \* history: per chat, the words it added and has not itself removed
    deleted,         \* history: the chats that have removed a word (Delete or Clear)
    undeleted,       \* history: <<chat, word, translation>> added since the last Delete/Clear
    fresh,           \* history: chats whose last message was a successful /random
    answered         \* history: chats whose pending answer was consumed, no /random since

vars == <<telegram, kquiz, currRandomWord, processed, update, called, err, sent, failed, logged,
          registrants, added, deleted, undeleted, fresh, answered>>

----------------------------------------------------------------------------
(* Bounds and inputs *)

\* The runs explored are those of at most MaxUpdates inbound messages.
MaxUpdates == 5

\* Chat identities: 1 is a decimal prefix of 12.
ChatIDs == {1, 12}

\* Words: a plain one and two starting with a digit.
Words == {<<"a">>, <<"2", "a">>, <<"1", "a">>}

\* Translations: one with letters of both cases, one containing a space.
Translations == {<<"H", "i">>, <<"o", " ", "k">>}

\* The characters answers are built from.
AnswerChars == {"H", "h", "i", "o", "k", " "}

----------------------------------------------------------------------------
(* Strings *)

DigitChars == <<"0", "1", "2", "3", "4", "5", "6", "7", "8", "9">>

RECURSIVE NatToStr(_)
NatToStr(n) ==
    IF n < 10 THEN <<DigitChars[n + 1]>>
    ELSE NatToStr(n \div 10) \o <<DigitChars[(n % 10) + 1]>>

\* fmt.Sprintf("%d", n)
Sprintf_d(n) == IF n < 0 THEN <<"-">> \o NatToStr(-n) ELSE NatToStr(n)

\* the byte of a character (ASCII), for bbolt's key order
ByteOf ==
    (" " :> 32) @@ ("-" :> 45) @@ ("/" :> 47)
      @@ ("0" :> 48) @@ ("1" :> 49) @@ ("2" :> 50) @@ ("3" :> 51)
      @@ ("4" :> 52) @@ ("5" :> 53) @@ ("6" :> 54) @@ ("7" :> 55)
      @@ ("8" :> 56) @@ ("9" :> 57)
      @@ ("H" :> 72) @@ ("I" :> 73)
      @@ ("a" :> 97) @@ ("c" :> 99) @@ ("d" :> 100) @@ ("e" :> 101)
      @@ ("g" :> 103) @@ ("h" :> 104) @@ ("i" :> 105) @@ ("k" :> 107)
      @@ ("l" :> 108) @@ ("m" :> 109) @@ ("n" :> 110) @@ ("o" :> 111)
      @@ ("p" :> 112) @@ ("r" :> 114) @@ ("s" :> 115) @@ ("t" :> 116)
      @@ ("u" :> 117)

CharCode(c) == ByteOf[c]

\* bytes.Compare(s, t) < 0
RECURSIVE BytesLess(_, _)
BytesLess(s, t) ==
    IF t = <<>> THEN FALSE
    ELSE IF s = <<>> THEN TRUE
    ELSE IF CharCode(Head(s)) # CharCode(Head(t))
         THEN CharCode(Head(s)) < CharCode(Head(t))
         ELSE BytesLess(Tail(s), Tail(t))

\* strings.HasPrefix(s, prefix)
HasPrefix(s, prefix) ==
    Len(s) >= Len(prefix) /\ SubSeq(s, 1, Len(prefix)) = prefix

\* strings.ReplaceAll(s, old, ""), old non-empty
RECURSIVE ReplaceAll(_, _)
ReplaceAll(s, old) ==
    IF Len(s) < Len(old) THEN s
    ELSE IF HasPrefix(s, old)
         THEN ReplaceAll(SubSeq(s, Len(old) + 1, Len(s)), old)
         ELSE <<Head(s)>> \o ReplaceAll(Tail(s), old)

\* strings.Index(s, " "): the 0-based index of the first space, or -1
Index(s) ==
    IF \E i \in 1..Len(s) : s[i] = " "
    THEN (CHOOSE i \in 1..Len(s) : s[i] = " " /\ \A j \in 1..(i - 1) : s[j] # " ") - 1
    ELSE -1

LowerChar(c) == CASE c = "H" -> "h" [] c = "I" -> "i" [] OTHER -> c

\* strings.ToLower(s)
ToLower(s) == [i \in 1..Len(s) |-> LowerChar(s[i])]

\* strings.SplitN(s, " ", 2) of an s that contains a space
SplitN(s) == <<SubSeq(s, 1, Index(s)), SubSeq(s, Index(s) + 2, Len(s))>>

----------------------------------------------------------------------------
(* package telegram: errors, buckets, BotHandler *)

Nil == "nil"
ErrAlreadyRegistered == "already registered"
ErrNotRegistered == "not yet registered"
ErrDatabaseError == "database error"
ErrDuplicateWord == "duplicate word"
ErrWordNotFound == "word not found"

\* fmt.Sprintf("%d%s", chatID, word): the key of a vocabulary entry
Sprintf_ds(chatID, word) == Sprintf_d(chatID) \o word

\* bucket.Put(key, value)
BucketPut(bucket, key, value) ==
    [k \in DOMAIN bucket \cup {key} |-> IF k = key THEN value ELSE bucket[k]]

\* bucket.Delete(key)
BucketDelete(bucket, key) == [k \in DOMAIN bucket \ {key} |-> bucket[k]]

\* cursor.First(), cursor.Next(), ...: the keys in byte order
RECURSIVE Cursor(_)
Cursor(keys) ==
    IF keys = {} THEN <<>>
    ELSE LET first == CHOOSE k \in keys : \A o \in keys \ {k} : BytesLess(k, o)
         IN  <<first>> \o Cursor(keys \ {first})

IsRegistered(chatID) == Sprintf_d(chatID) \in DOMAIN telegram

IsAdded(chatID, word) == Sprintf_ds(chatID, word) \in DOMAIN kquiz

Register(chatID) ==
    IF IsRegistered(chatID)
    THEN [err |-> ErrAlreadyRegistered, telegram |-> telegram]
    ELSE [err |-> Nil,
          telegram |-> BucketPut(telegram, Sprintf_d(chatID), Sprintf_d(chatID))]

\* Unregister without the bucket.Delete
UnregisterKeeps(chatID) ==
    IF ~IsRegistered(chatID)
    THEN [err |-> ErrNotRegistered, telegram |-> telegram]
    ELSE [err |-> Nil, telegram |-> telegram]

Unregister(chatID) ==
    IF ~IsRegistered(chatID)
    THEN [err |-> ErrNotRegistered, telegram |-> telegram]
    ELSE [err |-> Nil, telegram |-> BucketDelete(telegram, Sprintf_d(chatID))]

\* Add without the IsAdded check
AddOverwrites(chatID, word, translation) ==
    IF ~IsRegistered(chatID) THEN [err |-> ErrNotRegistered, kquiz |-> kquiz]
    ELSE [err |-> Nil,
          kquiz |-> BucketPut(kquiz, Sprintf_ds(chatID, word), translation)]

Add(chatID, word, translation) ==
    IF ~IsRegistered(chatID) THEN [err |-> ErrNotRegistered, kquiz |-> kquiz]
    ELSE IF IsAdded(chatID, word) THEN [err |-> ErrDuplicateWord, kquiz |-> kquiz]
    ELSE [err |-> Nil,
          kquiz |-> BucketPut(kquiz, Sprintf_ds(chatID, word), translation)]

\* translation is <<>> where the code returns a nil pointer
Search(chatID, word) ==
    IF ~IsRegistered(chatID) THEN [err |-> ErrNotRegistered, translation |-> <<>>]
    ELSE IF Sprintf_ds(chatID, word) \notin DOMAIN kquiz
         THEN [err |-> ErrWordNotFound, translation |-> <<>>]
         ELSE [err |-> Nil, translation |-> kquiz[Sprintf_ds(chatID, word)]]

\* Delete without the bucket.Delete
DeleteKeeps(chatID, word) ==
    IF ~IsRegistered(chatID) THEN [err |-> ErrNotRegistered, kquiz |-> kquiz]
    ELSE IF ~IsAdded(chatID, word) THEN [err |-> ErrWordNotFound, kquiz |-> kquiz]
    ELSE [err |-> Nil, kquiz |-> kquiz]

Delete(chatID, word) ==
    IF ~IsRegistered(chatID) THEN [err |-> ErrNotRegistered, kquiz |-> kquiz]
    ELSE IF ~IsAdded(chatID, word) THEN [err |-> ErrWordNotFound, kquiz |-> kquiz]
    ELSE [err |-> Nil, kquiz |-> BucketDelete(kquiz, Sprintf_ds(chatID, word))]

\* Clear without the IsRegistered check
ClearUnchecked(chatID) ==
    [err |-> Nil,
     kquiz |-> [k \in {key \in DOMAIN kquiz : ~HasPrefix(key, Sprintf_d(chatID))}
                  |-> kquiz[k]]]

Clear(chatID) ==
    IF ~IsRegistered(chatID) THEN [err |-> ErrNotRegistered, kquiz |-> kquiz]
    ELSE [err |-> Nil,
          kquiz |-> [k \in {key \in DOMAIN kquiz : ~HasPrefix(key, Sprintf_d(chatID))}
                       |-> kquiz[k]]]

\* words is <<>> where the code returns nil
List(chatID) ==
    IF ~IsRegistered(chatID) THEN [err |-> ErrNotRegistered, words |-> <<>>]
    ELSE LET Owned(key) == HasPrefix(key, Sprintf_d(chatID))
             keys == SelectSeq(Cursor(DOMAIN kquiz), Owned)
             wordMap == [i \in 1..Len(keys) |->
                           <<ReplaceAll(keys[i], Sprintf_d(chatID)), kquiz[keys[i]]>>]
         IN  IF Len(wordMap) = 0 THEN [err |-> ErrWordNotFound, words |-> <<>>]
             ELSE [err |-> Nil, words |-> wordMap]

\* idx is the value of rand.Intn(len(items)); fault says that the View
\* transaction of List fails; words is <<>> where the code returns nil
Random(chatID, idx, fault) ==
    IF ~IsRegistered(chatID) THEN [err |-> ErrNotRegistered, words |-> <<>>]
    ELSE LET items == IF fault THEN [err |-> ErrDatabaseError, words |-> <<>>]
                      ELSE List(chatID)
         IN  IF items.err # Nil THEN [err |-> items.err, words |-> <<>>]
             ELSE [err |-> Nil, words |-> items.words[idx + 1]]

\* the values rand.Intn(len(items)) can take in Random(chatID)
Intn(chatID) ==
    IF List(chatID).err = Nil THEN 0..(Len(List(chatID).words) - 1) ELSE {0}

----------------------------------------------------------------------------
(* Inbound messages *)

S_start == <<"/", "s", "t", "a", "r", "t">>
S_register == <<"/", "r", "e", "g", "i", "s", "t", "e", "r">>
S_stop == <<"/", "s", "t", "o", "p">>
S_unregister == <<"/", "u", "n", "r", "e", "g", "i", "s", "t", "e", "r">>
S_add == <<"/", "a", "d", "d">>
S_search == <<"/", "s", "e", "a", "r", "c", "h">>
S_random == <<"/", "r", "a", "n", "d", "o", "m">>
S_delete == <<"/", "d", "e", "l", "e", "t", "e">>
S_list == <<"/", "l", "i", "s", "t">>
S_clear == <<"/", "c", "l", "e", "a", "r">>

Commands == {S_start, S_register, S_stop, S_unregister, S_add, S_search,
             S_random, S_delete, S_list, S_clear}

\* every spelling of a translation in any letter case, and one other text
Answers ==
    {s \in UNION {[1..n -> AnswerChars] : n \in {Len(t) : t \in Translations}} :
        \E t \in Translations : ToLower(s) = ToLower(t)}
    \cup {<<"o">>}

\* the texts of the inbound messages
Inbox ==
    {S_start, S_register, S_stop, S_unregister, S_random, S_list, S_clear,
     S_add, S_search, S_delete}
    \cup {S_add \o <<" ">> \o <<"a">>}
    \cup {S_add \o <<" ", " ", "H", "i">>}
    \cup {S_add \o <<" ">> \o w \o <<" ">> \o t : w \in Words, t \in Translations}
    \cup {S_search \o <<" ">> \o w : w \in Words}
    \cup {S_delete \o <<" ">> \o w : w \in Words}
    \cup Answers

\* message[:spaceIndex], or the whole text
Message(text) == IF Index(text) # -1 THEN SubSeq(text, 1, Index(text)) ELSE text

\* message[spaceIndex+1:], or ""
Argument(text) ==
    IF Index(text) # -1 THEN SubSeq(text, Index(text) + 2, Len(text)) ELSE <<>>

\* switch message: the texts of the inbox that the switch sends to the case
\* of the given labels
Switch(labels) == {text \in Inbox : Message(text) \in labels}

----------------------------------------------------------------------------
(* package main *)

\* tgbotapi.NewMessage(chatID, text); text is the format's pieces in order
NewMessage(chatID, text) == [chatID |-> chatID, text |-> text]

NoUpdate == [chatID |-> 0, text |-> <<>>]

\* the assignment that makes a new map of the one entry
MapSetOnly(map, chatID, answer) == [c \in {chatID} |-> answer]

\* the assignment that keeps an entry the chat already has
MapSetIfAbsent(map, chatID, answer) ==
    [c \in DOMAIN map \cup {chatID} |-> IF c \in DOMAIN map THEN map[c] ELSE answer]

\* currRandomWord[chatID] = answer
MapSet(map, chatID, answer) ==
    [c \in DOMAIN map \cup {chatID} |-> IF c = chatID THEN answer ELSE map[c]]

\* the delete left out
MapDeleteNone(map, chatID) == map

\* delete(currRandomWord, chatID)
MapDelete(map, chatID) == [c \in DOMAIN map \ {chatID} |-> map[c]]

Init ==
    /\ telegram = <<>>
    /\ kquiz = <<>>
    /\ currRandomWord = <<>>
    /\ processed = 0
    /\ update = NoUpdate
    /\ called = "none"
    /\ err = Nil
    /\ sent = <<>>
    /\ failed = {}
    /\ logged = <<>>
    /\ registrants = {}
    /\ added = [c \in ChatIDs |-> <<>>]
    /\ deleted = {}
    /\ undeleted = {}
    /\ fresh = {}
    /\ answered = {}

\* for update := range updates: the next inbound message, if any
Range(chatID, text) ==
    /\ processed < MaxUpdates
    /\ processed' = processed + 1
    /\ update' = [chatID |-> chatID, text |-> text]

\* what every iteration that is not a successful /random records
Received(chatID, text) ==
    /\ Range(chatID, text)
    /\ fresh' = fresh \ {chatID}

registerUser(chatID) ==
    LET r == Register(chatID)
    IN  /\ telegram' = r.telegram
        /\ called' = "Register"
        /\ failed' = {}
        /\ err' = r.err
        /\ sent' = <<NewMessage(chatID,
                        IF r.err # Nil THEN <<"Registration failed. ", r.err, ".">>
                        ELSE <<"Thanks for your registration.">>)>>
        /\ registrants' = IF r.err = Nil THEN registrants \cup {chatID} ELSE registrants

unregisterUser(chatID) ==
    LET r == Unregister(chatID)
    IN  /\ telegram' = r.telegram
        /\ called' = "Unregister"
        /\ failed' = {}
        /\ err' = r.err
        /\ sent' = <<NewMessage(chatID,
                        IF r.err # Nil THEN <<"Unregistration failed. ", r.err, ".">>
                        ELSE <<"You have been successfully unregistered. You will not receive any future updates.">>)>>
        /\ registrants' = IF r.err = Nil THEN registrants \ {chatID} ELSE registrants

addWord(chatID, word, translation) ==
    LET r == Add(chatID, word, translation)
    IN  /\ kquiz' = r.kquiz
        /\ called' = "Add"
        /\ failed' = {}
        /\ err' = r.err
        /\ sent' = <<NewMessage(chatID,
                        IF r.err # Nil THEN <<"Add word failed. ", r.err, ".">>
                        ELSE <<"New word successfully added. ", word, " -> ", translation, ".">>)>>
        /\ added' = IF r.err = Nil
                    THEN [added EXCEPT ![chatID] = BucketPut(@, word, translation)]
                    ELSE added
        /\ undeleted' = IF r.err = Nil
                        THEN undeleted \cup {<<chatID, word, translation>>}
                        ELSE undeleted

searchWord(chatID, word) ==
    LET r == Search(chatID, word)
    IN  /\ called' = "Search"
        /\ failed' = {}
        /\ err' = r.err
        /\ sent' = <<NewMessage(chatID,
                        IF r.err # Nil THEN <<"Search word failed. ", r.err, ".">>
                        ELSE <<word, " -> ", r.translation, ".">>)>>

randomWord(chatID, idx, fault) ==
    LET r == Random(chatID, idx, fault)
    IN  /\ called' = "Random"
        /\ failed' = {}
        /\ err' = r.err
        /\ sent' = <<NewMessage(chatID,
                        IF r.err # Nil THEN <<"Get random word failed. ", r.err, ".">>
                        ELSE <<"What is translation for: ", r.words[1]>>)>>

deleteWord(chatID, word) ==
    LET r == Delete(chatID, word)
    IN  /\ kquiz' = r.kquiz
        /\ called' = "Delete"
        /\ failed' = {}
        /\ err' = r.err
        /\ sent' = <<NewMessage(chatID,
                        IF r.err # Nil THEN <<"Delete word failed. ", r.err, ".">>
                        ELSE <<word, " deleted.">>)>>
        /\ added' = IF r.err = Nil
                    THEN [added EXCEPT ![chatID] = BucketDelete(@, word)]
                    ELSE added
        /\ deleted' = IF r.err = Nil THEN deleted \cup {chatID} ELSE deleted
        /\ undeleted' = IF r.err = Nil THEN {} ELSE undeleted

clearWords(chatID) ==
    LET r == Clear(chatID)
    IN  /\ kquiz' = r.kquiz
        /\ called' = "Clear"
        /\ failed' = {}
        /\ err' = r.err
        /\ sent' = <<NewMessage(chatID,
                        IF r.err # Nil THEN <<"Clear words failed. ", r.err, ".">>
                        ELSE <<"Words cleared.">>)>>
        /\ added' = IF r.err = Nil THEN [added EXCEPT ![chatID] = <<>>] ELSE added
        /\ deleted' = IF r.err = Nil THEN deleted \cup {chatID} ELSE deleted
        /\ undeleted' = IF r.err = Nil THEN {} ELSE undeleted

\* the replies of listWords(chatID), one Send each
ListReplies(chatID) ==
    LET r == List(chatID)
    IN  IF r.err # Nil
        THEN <<NewMessage(chatID, <<"List words failed. ", r.err, ".">>)>>
        ELSE [i \in 1..Len(r.words) |->
                NewMessage(chatID, <<r.words[i][1], " -> ", r.words[i][2]>>)]

\* listWords that returns at the first Send that fails
listWordsStops(chatID) ==
    /\ called' = "List"
    /\ err' = List(chatID).err
    /\ \E errors \in SUBSET (1..Len(ListReplies(chatID))) :
        LET last == IF errors = {} THEN Len(ListReplies(chatID))
                    ELSE CHOOSE i \in errors : \A j \in errors : i <= j
        IN  /\ sent' = SubSeq(ListReplies(chatID), 1, last)
            /\ failed' = IF errors = {} THEN {} ELSE {last}
            /\ logged' = [i \in 1..Cardinality(failed') |->
                            <<"Failed to respond to list words request. ", "send error", ".">>]

\* errors: the Sends that return an error; each one is logged and the loop goes on
listWords(chatID) ==
    /\ called' = "List"
    /\ err' = List(chatID).err
    /\ sent' = ListReplies(chatID)
    /\ \E errors \in SUBSET (1..Len(ListReplies(chatID))) :
        /\ failed' = errors
        /\ logged' = [i \in 1..Cardinality(errors) |->
                        <<"Failed to respond to list words request. ", "send error", ".">>]

\* a prompt sent by the switch itself; no BotHandler operation is called
Usage(chatID, prompt) ==
    /\ called' = "none"
    /\ failed' = {}
    /\ err' = Nil
    /\ sent' = <<NewMessage(chatID, <<prompt>>)>>

----------------------------------------------------------------------------
(* The update loop of main: one action per case of the switch *)

CaseRegister ==
    \E chatID \in ChatIDs, text \in Switch({S_start, S_register}) :
        /\ Received(chatID, text)
        /\ Message(text) \in {S_start, S_register}
        /\ registerUser(chatID)
        /\ logged' = <<>>
        /\ UNCHANGED <<kquiz, currRandomWord, added, deleted, undeleted, answered>>

\* /unregister that also removes the words of the chat
CaseUnregisterClears ==
    \E chatID \in ChatIDs, text \in Switch({S_stop, S_unregister}) :
        /\ Received(chatID, text)
        /\ Message(text) \in {S_stop, S_unregister}
        /\ unregisterUser(chatID)
        /\ logged' = <<>>
        /\ kquiz' = Clear(chatID).kquiz
        /\ UNCHANGED <<currRandomWord, added, deleted, undeleted, answered>>

CaseUnregister ==
    \E chatID \in ChatIDs, text \in Switch({S_stop, S_unregister}) :
        /\ Received(chatID, text)
        /\ Message(text) \in {S_stop, S_unregister}
        /\ unregisterUser(chatID)
        /\ logged' = <<>>
        /\ UNCHANGED <<kquiz, currRandomWord, added, deleted, undeleted, answered>>

CaseAdd ==
    \E chatID \in ChatIDs, text \in Switch({S_add}) :
        /\ Received(chatID, text)
        /\ Message(text) = S_add
        /\ IF Len(Argument(text)) = 0 \/ Index(Argument(text)) = -1
           THEN /\ Usage(chatID, "Please provide the Korean word and its translation.")
                /\ UNCHANGED <<kquiz, added, undeleted>>
           ELSE /\ addWord(chatID, SplitN(Argument(text))[1], SplitN(Argument(text))[2])
        /\ logged' = <<>>
        /\ UNCHANGED <<registrants, telegram, currRandomWord, deleted, answered>>

CaseSearch ==
    \E chatID \in ChatIDs, text \in Switch({S_search}) :
        /\ Received(chatID, text)
        /\ Message(text) = S_search
        /\ IF Len(Argument(text)) = 0
           THEN Usage(chatID, "Please provide the Korean word.")
           ELSE searchWord(chatID, Argument(text))
        /\ logged' = <<>>
        /\ UNCHANGED <<registrants, telegram, kquiz, currRandomWord, added, deleted, undeleted, answered>>

\* /random that drops the pending answer when Random fails
CaseRandomForgets ==
    \E chatID \in ChatIDs, text \in Switch({S_random}) :
        /\ Range(chatID, text)
        /\ Message(text) = S_random
        /\ \E idx \in Intn(chatID), fault \in BOOLEAN :
            LET words == Random(chatID, idx, fault).words
            IN  /\ randomWord(chatID, idx, fault)
                /\ currRandomWord' = IF words # <<>>
                                     THEN MapSet(currRandomWord, chatID, words[2])
                                     ELSE MapDelete(currRandomWord, chatID)
                /\ fresh' = IF words # <<>> THEN fresh \cup {chatID} ELSE fresh \ {chatID}
        /\ answered' = answered \ {chatID}
        /\ logged' = <<>>
        /\ UNCHANGED <<registrants, telegram, kquiz, added, deleted, undeleted>>

CaseRandom ==
    \E chatID \in ChatIDs, text \in Switch({S_random}) :
        /\ Range(chatID, text)
        /\ Message(text) = S_random
        /\ \E idx \in Intn(chatID), fault \in BOOLEAN :
            LET words == Random(chatID, idx, fault).words
            IN  /\ randomWord(chatID, idx, fault)
                /\ currRandomWord' = IF words # <<>>
                                     THEN MapSet(currRandomWord, chatID, words[2])
                                     ELSE currRandomWord
                /\ fresh' = IF words # <<>> THEN fresh \cup {chatID} ELSE fresh \ {chatID}
        /\ answered' = answered \ {chatID}
        /\ logged' = <<>>
        /\ UNCHANGED <<registrants, telegram, kquiz, added, deleted, undeleted>>

CaseDelete ==
    \E chatID \in ChatIDs, text \in Switch({S_delete}) :
        /\ Received(chatID, text)
        /\ Message(text) = S_delete
        /\ IF Len(Argument(text)) = 0
           THEN /\ Usage(chatID, "Please provide the Korean word.")
                /\ UNCHANGED <<kquiz, added, deleted, undeleted>>
           ELSE deleteWord(chatID, Argument(text))
        /\ logged' = <<>>
        /\ UNCHANGED <<registrants, telegram, currRandomWord, answered>>

\* /list that also takes the pending answer of the chat
CaseListTakes ==
    \E chatID \in ChatIDs, text \in Switch({S_list}) :
        /\ Received(chatID, text)
        /\ Message(text) = S_list
        /\ listWords(chatID)
        /\ currRandomWord' = MapDelete(currRandomWord, chatID)
        /\ UNCHANGED <<registrants, telegram, kquiz, added, deleted, undeleted, answered>>

CaseList ==
    \E chatID \in ChatIDs, text \in Switch({S_list}) :
        /\ Received(chatID, text)
        /\ Message(text) = S_list
        /\ listWords(chatID)
        /\ UNCHANGED <<registrants, telegram, kquiz, currRandomWord, added, deleted, undeleted, answered>>

CaseClear ==
    \E chatID \in ChatIDs, text \in Switch({S_clear}) :
        /\ Received(chatID, text)
        /\ Message(text) = S_clear
        /\ clearWords(chatID)
        /\ logged' = <<>>
        /\ UNCHANGED <<registrants, telegram, currRandomWord, answered>>

\* the default case without the test of ok: a missing entry reads as ""
CaseDefaultAnswersAnyway ==
    \E chatID \in ChatIDs, text \in Inbox \ Switch(Commands) :
        /\ Received(chatID, text)
        /\ Message(text) \notin Commands
        /\ LET answer == IF chatID \in DOMAIN currRandomWord
                         THEN currRandomWord[chatID] ELSE <<>>
           IN  /\ sent' = <<NewMessage(chatID,
                              IF ToLower(Message(text)) = ToLower(answer)
                              THEN <<"Your answer is correct">>
                              ELSE <<"Your answer is incorrect. Correct answer is ", answer, ".">>)>>
               /\ currRandomWord' = MapDelete(currRandomWord, chatID)
               /\ answered' = IF chatID \in DOMAIN currRandomWord
                              THEN answered \cup {chatID} ELSE answered
               /\ logged' = <<>>
        /\ called' = "none"
        /\ err' = Nil
        /\ failed' = {}
        /\ UNCHANGED <<registrants, telegram, kquiz, added, deleted, undeleted>>

\* default: the message is taken as the answer to the randomised word
CaseDefault ==
    \E chatID \in ChatIDs, text \in Inbox \ Switch(Commands) :
        /\ Received(chatID, text)
        /\ Message(text) \notin Commands
        /\ IF chatID \notin DOMAIN currRandomWord
           THEN /\ logged' = <<<<"Unknown command [", Message(text), "].">>>>
                /\ sent' = <<>>
                /\ UNCHANGED <<currRandomWord, answered>>
           ELSE LET answer == currRandomWord[chatID]
                IN  /\ sent' = <<NewMessage(chatID,
                                   IF ToLower(Message(text)) = ToLower(answer)
                                   THEN <<"Your answer is correct">>
                                   ELSE <<"Your answer is incorrect. Correct answer is ", answer, ".">>)>>
                    /\ currRandomWord' = MapDelete(currRandomWord, chatID)
                    /\ answered' = answered \cup {chatID}
                    /\ logged' = <<>>
        /\ called' = "none"
        /\ err' = Nil
        /\ failed' = {}
        /\ UNCHANGED <<registrants, telegram, kquiz, added, deleted, undeleted>>

Next ==
    \/ CaseRegister
    \/ CaseUnregister
    \/ CaseAdd
    \/ CaseSearch
    \/ CaseRandom
    \/ CaseDelete
    \/ CaseList
    \/ CaseClear
    \/ CaseDefault

Spec == Init /\ [][Next]_vars

----------------------------------------------------------------------------
(* Properties *)

\* the step is one iteration of the update loop, for a message of chat c
Step(c) == processed' = processed + 1 /\ update'.chatID = c

\* the step is one iteration of the update loop, for the message text of chat c
StepOn(c, text) == Step(c) /\ update'.text = text

\* the word and the translation /add passes to Add
AddWordOf(text) == SplitN(Argument(text))[1]
AddTranslationOf(text) == SplitN(Argument(text))[2]

Correct(c) == NewMessage(c, <<"Your answer is correct">>)
Incorrect(c, answer) ==
    NewMessage(c, <<"Your answer is incorrect. Correct answer is ", answer, ".">>)

\* C1: after a successful /random from chat c, if the very next message from
\* c is the returned translation in any letter case (the translation being
\* anything /add can store, spaces included), the reply is "Your answer is
\* correct".
C1_ExactAnswerIsCorrect ==
    [][\A c \in ChatIDs :
        (/\ c \in fresh
         /\ Step(c)
         /\ ToLower(update'.text) = ToLower(currRandomWord[c]))
        => sent' = <<Correct(c)>>]_vars

\* C2: a successful Clear(C) removes every entry added by C and none added by
\* another chat D: afterwards List(C) yields WordNotFound and Search(D, w)
\* still returns the stored translation of every word w that D had added (and
\* that was stored under a key no word of C has).
C2_ClearRemovesOnlyOwnEntries ==
    [][\A C \in ChatIDs :
        (Step(C) /\ called' = "Clear" /\ err' = Nil) =>
            /\ List(C)'.err = ErrWordNotFound
            /\ \A D \in registrants \ {C} : \A w \in DOMAIN added[D] :
                (/\ Search(D, w) = [err |-> Nil, translation |-> added[D][w]]
                 /\ \A v \in DOMAIN added[C] : Sprintf_ds(C, v) # Sprintf_ds(D, w))
                => Search(D, w)' = Search(D, w)]_vars

\* C3: for a registered chat C that has added N distinct words and deleted
\* none, whatever other chats have stored, List(C) returns exactly N pairs,
\* each a (word, translation) that C added, and WordNotFound when N = 0.
C3_ListReturnsWhatWasAdded ==
    \A C \in registrants \ deleted :
        IF DOMAIN added[C] = {}
        THEN List(C).err = ErrWordNotFound
        ELSE /\ List(C).err = Nil
             /\ Len(List(C).words) = Cardinality(DOMAIN added[C])
             /\ {List(C).words[i] : i \in 1..Len(List(C).words)}
                    = {<<w, added[C][w]>> : w \in DOMAIN added[C]}

\* C4: for registered chats C # D, no Add, Delete or Clear by C changes the
\* outcome of Search(D, w), Add(D, w, t) or Delete(D, w) for any word w.
C4_OtherChatsOperationsAreInvisible ==
    [][\A C \in registrants : \A D \in registrants \ {C} :
        (Step(C) /\ called' \in {"Add", "Delete", "Clear"}) =>
            \A w \in Words :
                /\ Search(D, w)' = Search(D, w)
                /\ Delete(D, w)'.err = Delete(D, w).err
                /\ \A t \in Translations : Add(D, w, t)'.err = Add(D, w, t).err]_vars

\* C5: every word operation (Add, Search, Delete, Clear, List, Random) called
\* for a chat that is not registered returns NotRegistered and leaves the
\* registration bucket and the vocabulary bucket unchanged.
C5_WordOperationsNeedRegistration ==
    [][\A c \in ChatIDs \ registrants :
        (Step(c) /\ called' \in {"Add", "Search", "Delete", "Clear", "List", "Random"})
        => /\ err' = ErrNotRegistered
           /\ telegram' = telegram
           /\ kquiz' = kquiz]_vars

\* a Clear refused for an unregistered chat that still has entries in the bucket
C5_Witness ==
    /\ called = "Clear"
    /\ update.chatID \notin registrants
    /\ err = ErrNotRegistered
    /\ \E k \in DOMAIN kquiz : HasPrefix(k, Sprintf_d(update.chatID))

\* C6: for a registered chat, Add(id, word, t2) after a successful
\* Add(id, word, t1) with no Delete or Clear in between returns DuplicateWord
\* and leaves the stored translation t1; for an unregistered chat Add returns
\* NotRegistered, also when the key exists in the vocabulary bucket.
C6_DuplicateAndRegistrationOrder ==
    [][\A c \in ChatIDs :
        (Step(c) /\ called' = "Add") =>
            /\ c \in registrants =>
                 \A t1 \in Translations :
                    <<c, AddWordOf(update'.text), t1>> \in undeleted =>
                        /\ err' = ErrDuplicateWord
                        /\ kquiz'[Sprintf_ds(c, AddWordOf(update'.text))] = t1
                        /\ kquiz' = kquiz
            /\ c \notin registrants => err' = ErrNotRegistered /\ kquiz' = kquiz]_vars

\* a second Add of a word, with another translation, refused as duplicate
C6_Witness ==
    /\ called = "Add"
    /\ err = ErrDuplicateWord
    /\ \E t1 \in Translations :
        /\ <<update.chatID, AddWordOf(update.text), t1>> \in undeleted
        /\ t1 # AddTranslationOf(update.text)

\* C7: Register(id) succeeds exactly when id is not registered and otherwise
\* returns AlreadyRegistered; Unregister(id) succeeds exactly when id is
\* registered and otherwise returns NotRegistered; a failing call leaves the
\* registration bucket unchanged and a successful one changes the membership
\* of id only.
C7_RegisterUnregister ==
    [][\A c \in ChatIDs :
        /\ (Step(c) /\ called' = "Register") =>
              IF c \in registrants
              THEN err' = ErrAlreadyRegistered /\ telegram' = telegram
              ELSE /\ err' = Nil
                   /\ IsRegistered(c)'
                   /\ \A d \in ChatIDs \ {c} : IsRegistered(d)' = IsRegistered(d)
        /\ (Step(c) /\ called' = "Unregister") =>
              IF c \notin registrants
              THEN err' = ErrNotRegistered /\ telegram' = telegram
              ELSE /\ err' = Nil
                   /\ ~IsRegistered(c)'
                   /\ \A d \in ChatIDs \ {c} : IsRegistered(d)' = IsRegistered(d)]_vars

\* a successful Unregister while another chat stays registered
C7_Witness ==
    /\ called = "Unregister"
    /\ err = Nil
    /\ registrants # {}
    /\ \A d \in registrants : IsRegistered(d)

\* C8: after a successful Add(id, w, t), Search(id, w) returns t; after a
\* successful Delete(id, w), Search(id, w) and Delete(id, w) return
\* WordNotFound, Add(id, w, t') succeeds again and every other entry of the
\* chat is unchanged.
C8_AddSearchDelete ==
    [][(processed' = processed + 1 /\ called' \in {"Add", "Delete"} /\ err' = Nil) =>
        \A c \in {update'.chatID}, arg \in {Argument(update'.text)} :
            /\ called' = "Add" =>
                  \A pair \in {SplitN(arg)} :
                      Search(c, pair[1])' = [err |-> Nil, translation |-> pair[2]]
            /\ called' = "Delete" =>
                  /\ Search(c, arg)'.err = ErrWordNotFound
                  /\ Delete(c, arg)'.err = ErrWordNotFound
                  /\ \A t \in Translations : Add(c, arg, t)'.err = Nil
                  /\ \A v \in Words \ {arg} : Search(c, v)' = Search(c, v)
                  /\ \A k \in DOMAIN kquiz \ {Sprintf_ds(c, arg)} :
                        k \in DOMAIN kquiz' /\ kquiz'[k] = kquiz[k]]_vars

\* a successful Delete that leaves another entry of the same chat in place
C8_Witness ==
    /\ called = "Delete"
    /\ err = Nil
    /\ \E v \in Words \ {Argument(update.text)} : Search(update.chatID, v).err = Nil

\* C9: a message that is no recognized command, from a chat with a pending
\* answer, gets exactly one reply (correct, or incorrect with the answer) and
\* removes the chat's pending answer either way; a further such message from
\* the chat, with no /random in between, gets no reply and is logged as an
\* unknown command.
C9_AnswerIsTakenOnce ==
    [][\A c \in ChatIDs :
        (Step(c) /\ Message(update'.text) \notin Commands) =>
            /\ c \in DOMAIN currRandomWord =>
                 /\ sent' \in {<<Correct(c)>>, <<Incorrect(c, currRandomWord[c])>>}
                 /\ c \notin DOMAIN currRandomWord'
            /\ c \in answered =>
                 /\ sent' = <<>>
                 /\ logged' = <<<<"Unknown command [", Message(update'.text), "].">>>>]_vars

\* a second text after an answered quiz: no reply, logged as unknown command
C9_Witness ==
    /\ update.chatID \in answered
    /\ Message(update.text) \notin Commands
    /\ sent = <<>>
    /\ logged # <<>>

\* C10 as stated: after a successful /random from chat c, if the next message
\* from c is a recognized command, c has no pending answer once that message
\* has been processed.
C10_CommandClearsPendingAnswer ==
    [][\A c \in ChatIDs :
        (c \in fresh /\ Step(c) /\ Message(update'.text) \in Commands)
        => c \notin DOMAIN currRandomWord']_vars

\* C10 as amended: after a successful /random from chat c, the next message
\* from c clears the pending answer only if it is no recognized command; after
\* a recognized command the pending answer is still there, unchanged unless
\* the command is a successful /random.
C10_OnlyAnAnswerClearsPendingAnswer ==
    [][\A c \in ChatIDs :
        (c \in fresh /\ Step(c)) =>
            IF Message(update'.text) \in Commands
            THEN /\ c \in DOMAIN currRandomWord'
                 /\ c \notin fresh' => currRandomWord'[c] = currRandomWord[c]
            ELSE c \notin DOMAIN currRandomWord']_vars

\* a /list processed for a chat whose answer is still pending afterwards
C10_Witness ==
    /\ called = "List"
    /\ update.chatID \in DOMAIN currRandomWord
    /\ update.chatID \notin fresh

\* C11: when /random fails for chat c (NotRegistered, WordNotFound or
\* DatabaseError), one failure reply is sent and the pending answers of all
\* chats are left as they were: an earlier entry of c keeps its value and no
\* entry is created.
C11_FailedRandomKeepsPendingAnswers ==
    [][\A c \in ChatIDs :
        (Step(c) /\ called' = "Random" /\ err' # Nil) =>
            /\ err' \in {ErrNotRegistered, ErrWordNotFound, ErrDatabaseError}
            /\ sent' = <<NewMessage(c, <<"Get random word failed. ", err', ".">>)>>
            /\ currRandomWord' = currRandomWord]_vars

\* a failed /random of a chat whose earlier pending answer is still there
C11_Witness ==
    /\ called = "Random"
    /\ err # Nil
    /\ update.chatID \in DOMAIN currRandomWord

\* C12: /add calls Add only when its argument is a word followed by at least
\* one further whitespace-separated token, so that the word and the
\* translation passed to Add are both non-empty; for every other argument
\* (empty, one token, a leading space, a token followed only by a space) one
\* usage prompt is sent, Add is not called and the store is unchanged.
C12_AddNeedsWordAndTranslation ==
    [][\A c \in ChatIDs, text \in {update'.text} :
        (StepOn(c, text) /\ Message(text) = S_add) =>
            IF /\ Index(Argument(text)) > 0
               /\ \E i \in (Index(Argument(text)) + 2)..Len(Argument(text)) :
                      Argument(text)[i] # " "
            THEN /\ called' = "Add"
                 /\ AddWordOf(text) # <<>>
                 /\ AddTranslationOf(text) # <<>>
            ELSE /\ called' = "none"
                 /\ sent' = <<NewMessage(c,
                        <<"Please provide the Korean word and its translation.">>)>>
                 /\ telegram' = telegram
                 /\ kquiz' = kquiz]_vars

\* C13: a message that is no recognized command, from a chat without a
\* pending answer, gets no reply and changes nothing: the two buckets and the
\* pending answers of all chats stay as they were.
C13_UnknownCommandChangesNothing ==
    [][\A c \in ChatIDs \ DOMAIN currRandomWord :
        (Step(c) /\ Message(update'.text) \notin Commands) =>
            /\ sent' = <<>>
            /\ telegram' = telegram
            /\ kquiz' = kquiz
            /\ currRandomWord' = currRandomWord]_vars

\* a text of a chat that was never quizzed, while another chat's answer is pending
C13_Witness ==
    /\ Message(update.text) \notin Commands
    /\ update.chatID \in ChatIDs \ answered
    /\ sent = <<>>
    /\ currRandomWord # <<>>

\* C14: /list on success sends one reply per pair List returned, in the order
\* of List, and on failure one failure reply; a Send that fails is logged,
\* does not stop the remaining replies and is not repeated.
C14_ListRepliesInOrder ==
    [][\A c \in ChatIDs :
        (Step(c) /\ called' = "List") =>
            /\ err' = List(c).err
            /\ IF err' = Nil
               THEN /\ Len(sent') = Len(List(c).words)
                    /\ \A i \in 1..Len(sent') :
                        sent'[i] = NewMessage(c,
                            <<List(c).words[i][1], " -> ", List(c).words[i][2]>>)
               ELSE sent' = <<NewMessage(c, <<"List words failed. ", err', ".">>)>>
            /\ failed' \subseteq 1..Len(sent')
            /\ Len(logged') = Cardinality(failed')]_vars

\* a /list of two entries whose first Send failed and whose second was sent
C14_Witness ==
    /\ called = "List"
    /\ err = Nil
    /\ Len(sent) >= 2
    /\ 1 \in failed

\* C16: on a successful /random for chat c, the word of the reply and the
\* translation recorded as pending answer of c are the two components of one
\* pair of List(c); each successful /random overwrites the pending answer.
C16_IssuedWordAndAnswerAreOnePair ==
    [][\A c \in ChatIDs :
        (Step(c) /\ called' = "Random" /\ err' = Nil) =>
            /\ Len(sent') = 1
            /\ sent'[1].chatID = c
            /\ sent'[1].text[1] = "What is translation for: "
            /\ c \in DOMAIN currRandomWord'
            /\ \E i \in 1..Len(List(c).words) :
                List(c).words[i] = <<sent'[1].text[2], currRandomWord'[c]>>]_vars

\* a successful /random of a chat whose list has two different translations
C16_Witness ==
    /\ called = "Random"
    /\ err = Nil
    /\ update.chatID \in fresh
    /\ \E i, j \in 1..Len(List(update.chatID).words) :
        List(update.chatID).words[i][2] # List(update.chatID).words[j][2]

C18_PendingAnswerBelongsToItsChat ==
    [][\A c \in ChatIDs :
        /\ (c \in DOMAIN currRandomWord' /\
               (c \notin DOMAIN currRandomWord \/ currRandomWord'[c] # currRandomWord[c]))
              => (Step(c) /\ called' = "Random" /\ err' = Nil)
        /\ (c \in DOMAIN currRandomWord /\ c \notin DOMAIN currRandomWord')
              => (Step(c) /\ Message(update'.text) \notin Commands)
        /\ (Step(c) /\ c \in DOMAIN currRandomWord /\ Message(update'.text) \notin Commands)
              => sent' \in {<<Correct(c)>>, <<Incorrect(c, currRandomWord[c])>>}]_vars

\* an unregistered chat that gets the reply to its answer
C18_Witness ==
    /\ update.chatID \in ChatIDs \ registrants
    /\ Message(update.text) \notin Commands
    /\ Len(sent) = 1

====
